---- MODULE Spec2Model ----
(***************************************************************************)
(* Model of retiarii_perf/sdk/pytorch_graph/_graph_utils.py: construction  *)
(* of a TorchModuleGraph from a jit trace (node grouping, index building,  *)
(* auxiliary information), the predecessor/successor queries and the       *)
(* module hierarchy.  Python strings are sequences of one-character        *)
(* strings, so that split/replace/sort/regex act on characters.  The pure  *)
(* functions of the file and of retiarii_perf/mnasnet.py are applied to    *)
(* the arguments held in args, and leave their value in result.            *)
(***************************************************************************)
EXTENDS Integers, Sequences, FiniteSets, TLC

VARIABLES torch_version, model, dummy_input, traced_model, pc, error, trace,
          jit_trace_calls, global_count, leaf_modules, nodes_op, name_to_node,
          input_to_node, output_to_node, retval, bound_model, args, result

vars == <<torch_version, model, dummy_input, traced_model, pc, error, trace,
          jit_trace_calls, global_count, leaf_modules, nodes_op, name_to_node,
          input_to_node, output_to_node, retval, bound_model, args, result>>

(***************************************************************************)
(* Bounds of the checked instances.                                        *)
(***************************************************************************)
MaxNodes == 3
MaxModules == 3

(***************************************************************************)
(* Python str operations.                                                  *)
(***************************************************************************)
AsciiOrder ==
    <<"-", ".", "/", "0", "1", "2", "3", "4", "5", "6", "7", "8", "9", ":",
      "A", "B", "C", "D", "E", "F", "G", "H", "I", "J", "K", "L", "M", "N",
      "O", "P", "Q", "R", "S", "T", "U", "V", "W", "X", "Y", "Z", "[", "]",
      "_", "a", "b", "c", "d", "e", "f", "g", "h", "i", "j", "k", "l", "m",
      "n", "o", "p", "q", "r", "s", "t", "u", "v", "w", "x", "y", "z">>

Chars == {AsciiOrder[i] : i \in 1..Len(AsciiOrder)}

Ord == [c \in Chars |-> CHOOSE i \in 1..Len(AsciiOrder) : AsciiOrder[i] = c]

Digits == {"0", "1", "2", "3", "4", "5", "6", "7", "8", "9"}

IsAlnum(c) == Ord[c] >= Ord["0"] /\ c \notin {":", "[", "]", "_"}

\* s < t for Python str: lexicographic on code points
StrLess(s, t) ==
    \E i \in 1..Len(t) :
        /\ \A j \in 1..(i - 1) : j <= Len(s) /\ s[j] = t[j]
        /\ \/ i = Len(s) + 1
           \/ i <= Len(s) /\ Ord[s[i]] < Ord[t[i]]

StrGE(s, t) == ~StrLess(s, t)

StartsWith(s, p) == Len(s) >= Len(p) /\ SubSeq(s, 1, Len(p)) = p

EndsWith(s, p) == Len(s) >= Len(p) /\ SubSeq(s, Len(s) - Len(p) + 1, Len(s)) = p

\* s.split(sep) for a one-character separator
Split(s, sep) ==
    LET cuts == <<0>> \o SelectSeq([i \in 1..Len(s) |-> i], LAMBDA i : s[i] = sep)
                     \o <<Len(s) + 1>>
    IN [k \in 1..(Len(cuts) - 1) |-> SubSeq(s, cuts[k] + 1, cuts[k + 1] - 1)]

\* sep.join(parts)
RECURSIVE Join(_, _)
Join(parts, sep) ==
    IF parts = <<>> THEN <<>>
    ELSE IF Len(parts) = 1 THEN parts[1]
    ELSE parts[1] \o <<sep>> \o Join(Tail(parts), sep)

\* s.replace(old, new) for non-empty old: non-overlapping occurrences, left
\* to right, from position i on
RECURSIVE ReplaceFrom(_, _, _, _)
ReplaceFrom(s, old, new, i) ==
    LET found == {j \in i..(Len(s) - Len(old) + 1) : SubSeq(s, j, j + Len(old) - 1) = old}
    IN IF found = {} THEN SubSeq(s, i, Len(s))
       ELSE LET j == CHOOSE x \in found : \A y \in found : x <= y
            IN SubSeq(s, i, j - 1) \o new \o ReplaceFrom(s, old, new, j + Len(old))

Replace(s, old, new) == ReplaceFrom(s, old, new, 1)

\* str(n) and '%d' % n for n >= 0
RECURSIVE IntToStr(_)
IntToStr(n) ==
    IF n < 10 THEN <<AsciiOrder[Ord["0"] + n]>>
    ELSE IntToStr(n \div 10) \o <<AsciiOrder[Ord["0"] + (n % 10)]>>

\* s.isidentifier() on the modelled alphabet
IsIdentifier(s) ==
    /\ s # <<>>
    /\ s[1] \notin Digits
    /\ \A i \in 1..Len(s) : IsAlnum(s[i]) \/ s[i] = "_"

\* re.sub('[^0-9a-zA-Z_]', '_', s)
Sanitize(s) == [i \in 1..Len(s) |-> IF IsAlnum(s[i]) \/ s[i] = "_" THEN s[i] ELSE "_"]

\* sorted(S) for a set of str
RECURSIVE Sorted(_)
Sorted(S) ==
    IF S = {} THEN <<>>
    ELSE LET m == CHOOSE x \in S : \A y \in S \ {x} : StrLess(x, y)
         IN <<m>> \o Sorted(S \ {m})

SeqToSet(s) == {s[i] : i \in 1..Len(s)}

\* re.findall(r'\[(.*?)\]', s), from position i on
RECURSIVE FindAllBracketedFrom(_, _)
FindAllBracketedFrom(s, i) ==
    LET opens == {j \in i..Len(s) : s[j] = "[" /\ \E k \in (j + 1)..Len(s) : s[k] = "]"}
    IN IF opens = {} THEN <<>>
       ELSE LET j == CHOOSE x \in opens : \A y \in opens : x <= y
                closes == {k \in (j + 1)..Len(s) : s[k] = "]"}
                k == CHOOSE x \in closes : \A y \in closes : x <= y
            IN <<SubSeq(s, j + 1, k - 1)>> \o FindAllBracketedFrom(s, k + 1)

FindAllBracketed(s) == FindAllBracketedFrom(s, 1)

(***************************************************************************)
(* Constants of the source.                                                *)
(***************************************************************************)
CAT_KIND == <<"a", "t", "e", "n", ":", ":", "c", "a", "t">>
GETATTR_KIND == <<"p", "r", "i", "m", ":", ":", "G", "e", "t", "A", "t", "t", "r">>
PrimPrefix == <<"p", "r", "i", "m", ":", ":">>
ModulePrefix == <<"_", "_", "m", "o", "d", "u", "l", "e", ".">>
V131 == <<"1", ".", "3", ".", "1">>
V140 == <<"1", ".", "4", ".", "0">>

KindConstant == <<"p", "r", "i", "m", ":", ":", "C", "o", "n", "s", "t", "a", "n", "t">>
KindListConstruct == <<"p", "r", "i", "m", ":", ":", "L", "i", "s", "t", "C", "o", "n", "s", "t", "r", "u", "c", "t">>
KindNumToTensor == <<"p", "r", "i", "m", ":", ":", "N", "u", "m", "T", "o", "T", "e", "n", "s", "o", "r">>
KindListUnpack == <<"p", "r", "i", "m", ":", ":", "L", "i", "s", "t", "U", "n", "p", "a", "c", "k">>
KindMean == <<"a", "t", "e", "n", ":", ":", "m", "e", "a", "n">>
KindView == <<"a", "t", "e", "n", ":", ":", "v", "i", "e", "w">>
KindFlatten == <<"a", "t", "e", "n", ":", ":", "f", "l", "a", "t", "t", "e", "n">>
KindReshape == <<"a", "t", "e", "n", ":", ":", "r", "e", "s", "h", "a", "p", "e">>
KindConvolution == <<"a", "t", "e", "n", ":", ":", "_", "c", "o", "n", "v", "o", "l", "u", "t", "i", "o", "n">>

\* kinds that may take a None constant in _visit_node
NoneArgKinds ==
    {KindMean, <<"a", "t", "e", "n", ":", ":", "a", "v", "g", "_", "p", "o", "o", "l", "2", "d">>, <<"a", "t", "e", "n", ":", ":", "o", "n", "e", "s", "_", "l", "i", "k", "e">>,
     <<"a", "t", "e", "n", ":", ":", "t", "o">>, <<"a", "t", "e", "n", ":", ":", "s", "o", "f", "t", "m", "a", "x">>, <<"a", "t", "e", "n", ":", ":", "s", "u", "m">>,
     <<"a", "t", "e", "n", ":", ":", "a", "r", "a", "n", "g", "e">>}

\* kinds whose shapes _extract_auxiliary_info records
ShapeKinds == {KindView, KindFlatten, KindMean, KindReshape}

\* parse_traced_name
parse_traced_name(module_name) ==
    LET prefix == <<"T", "r", "a", "c", "e", "d", "M", "o", "d", "u", "l", "e", "[">>
        suffix == <<"]">>
    IN IF StartsWith(module_name, prefix) /\ EndsWith(module_name, suffix)
       THEN SubSeq(module_name, Len(prefix) + 1, Len(module_name) - Len(suffix))
       ELSE module_name

(***************************************************************************)
(* _extract_leaf_modules                                                   *)
(***************************************************************************)
is_parent(name1, name2) ==
    LET parts1 == Split(name1, ".")
        parts2 == Split(name2, ".")
    IN IF Len(parts1) >= Len(parts2) THEN FALSE
       ELSE \A i \in 1..Len(parts1) : parts2[i] = parts1[i]

\* named: the names yielded by trace.named_modules()
_extract_leaf_modules(named) ==
    LET module_names == Sorted({x \in named : x # <<>>})
        kept == SelectSeq([i \in 1..Len(module_names) |-> i],
                          LAMBDA i : i + 1 > Len(module_names)
                                     \/ ~is_parent(module_names[i], module_names[i + 1]))
    IN [k \in 1..Len(kept) |-> module_names[kept[k]]]

\* _get_module_name, under the torch version `version`
_get_module_name(version, scope_name) ==
    IF StrGE(version, V140)
    THEN LET parts == Split(scope_name, "/")
         IN Replace(parts[Len(parts)], ModulePrefix, <<>>)
    ELSE Join(FindAllBracketed(scope_name), ".")

(***************************************************************************)
(* Python containers.                                                      *)
(***************************************************************************)
\* d[k] = v
Put(d, k, v) == [x \in DOMAIN d \cup {k} |-> IF x = k THEN v ELSE d[x]]

\* d.update(e)
Update(d, e) == [x \in DOMAIN d \cup DOMAIN e |-> IF x \in DOMAIN e THEN e[x] ELSE d[x]]

EmptyDict == [x \in {} |-> 0]

\* defaultdict(list): the dict after evaluating d[k]
DefaultDictTouch(d, k) == IF k \in DOMAIN d THEN d ELSE Put(d, k, <<>>)

\* keys of a dict filled in the order of `keys`: first insertion order
RECURSIVE InsertionOrder(_)
InsertionOrder(keys) ==
    IF keys = <<>> THEN <<>>
    ELSE LET front == InsertionOrder(SubSeq(keys, 1, Len(keys) - 1))
             k == keys[Len(keys)]
         IN IF k \in SeqToSet(front) THEN front ELSE Append(front, k)

SetMax(S) == CHOOSE x \in S : \A y \in S : y <= x

NoneAux == [isNone |-> TRUE, dict |-> EmptyDict]

\* NodePyGroup.__init__
NodePyGroup(name, unique_name, node_type, op_type, node_cpps, inputs, outputs) ==
    [name |-> name, unique_name |-> unique_name, type |-> node_type,
     op_type |-> op_type, node_cpps |-> node_cpps, inputs |-> inputs,
     outputs |-> outputs, auxiliary |-> NoneAux]

(***************************************************************************)
(* Trace-level indexes of _build_graph.  g is graph.nodes(), a sequence of *)
(* trace nodes; a trace node is identified by its position in g.           *)
(***************************************************************************)
\* {x.debugName(): n for n in graph.nodes() for x in n.outputs()}
TraceOutputToNode(g) ==
    [v \in UNION {SeqToSet(g[n].outputs) : n \in 1..Len(g)} |->
        SetMax({n \in 1..Len(g) : v \in SeqToSet(g[n].outputs)})]

\* {x.debugName(): n for n in graph.nodes() for x in n.inputs()}
TraceInputToNode(g) ==
    [v \in UNION {SeqToSet(g[n].inputs) : n \in 1..Len(g)} |->
        SetMax({n \in 1..Len(g) : v \in SeqToSet(g[n].inputs)})]

\* the test of both expansions, with the check against `nodes` left out
PredecessorAnywhere(input_name, nodes, output_map) ==
    input_name \in DOMAIN output_map

\* input_name in output_to_node and output_to_node[input_name] in nodes
PredecessorInNodes(input_name, nodes, output_map) ==
    input_name \in DOMAIN output_map /\ output_map[input_name] \in SeqToSet(nodes)

(***************************************************************************)
(* _expand_module_node                                                     *)
(***************************************************************************)
RECURSIVE ExpandModuleInputs(_, _, _, _)
ExpandModuleInputs(ins, st, nodes, output_map) ==
    IF ins = <<>> THEN st
    ELSE LET input_name == Head(ins)
             st2 == IF PredecessorInNodes(input_name, nodes, output_map)
                    THEN LET predecessor_node == output_map[input_name]
                         IN IF predecessor_node \notin st.visited
                            THEN [st EXCEPT !.node_group = Append(@, predecessor_node),
                                            !.node_queue = Append(@, predecessor_node),
                                            !.visited = @ \cup {predecessor_node}]
                            ELSE st
                    ELSE [st EXCEPT !.inputs = Append(@, input_name)]
         IN ExpandModuleInputs(Tail(ins), st2, nodes, output_map)

RECURSIVE ExpandModuleOutputs(_, _, _, _)
ExpandModuleOutputs(outs, st, nodes, input_map) ==
    IF outs = <<>> THEN st
    ELSE LET output_name == Head(outs)
             st2 == IF output_name \in DOMAIN input_map
                       /\ input_map[output_name] \in SeqToSet(nodes)
                    THEN LET successor_node == input_map[output_name]
                         IN IF successor_node \notin st.visited
                            THEN [st EXCEPT !.node_group = Append(@, successor_node),
                                            !.node_queue = Append(@, successor_node),
                                            !.visited = @ \cup {successor_node}]
                            ELSE st
                    ELSE [st EXCEPT !.outputs = Append(@, output_name)]
         IN ExpandModuleOutputs(Tail(outs), st2, nodes, input_map)

RECURSIVE ExpandModuleLoop(_, _, _, _, _)
ExpandModuleLoop(g, st, nodes, input_map, output_map) ==
    IF st.node_queue = <<>> THEN st
    ELSE LET curr_node == Head(st.node_queue)
             st1 == [st EXCEPT !.node_queue = Tail(@)]
             st2 == ExpandModuleInputs(g[curr_node].inputs, st1, nodes, output_map)
             st3 == ExpandModuleOutputs(g[curr_node].outputs, st2, nodes, input_map)
         IN ExpandModuleLoop(g, st3, nodes, input_map, output_map)

_expand_module_node(g, node, node_name, unique_name, op_type, nodes, input_map, output_map, module_type) ==
    LET op == IF op_type = <<>> THEN g[node].kind ELSE op_type
        Group(st) == NodePyGroup(node_name, unique_name, module_type, op, st.node_group,
                                 st.inputs, st.outputs)
    IN Group(ExpandModuleLoop(g, [node_group |-> <<node>>, node_queue |-> <<node>>,
                                  visited |-> {node}, inputs |-> <<>>, outputs |-> <<>>],
                              nodes, input_map, output_map))

(***************************************************************************)
(* _expand_non_prim_node                                                   *)
(***************************************************************************)
RECURSIVE ExpandNonPrimInputs(_, _, _, _, _)
ExpandNonPrimInputs(g, ins, st, nodes, output_map) ==
    IF ins = <<>> THEN st
    ELSE LET input_name == Head(ins)
             st2 == IF PredecessorInNodes(input_name, nodes, output_map)
                    THEN LET predecessor_node == output_map[input_name]
                         IN IF StartsWith(g[predecessor_node].kind, PrimPrefix)
                            THEN [st EXCEPT !.node_group = Append(@, predecessor_node),
                                            !.node_queue = Append(@, predecessor_node)]
                            ELSE [st EXCEPT !.inputs = Append(@, input_name)]
                    ELSE [st EXCEPT !.inputs = Append(@, input_name)]
         IN ExpandNonPrimInputs(g, Tail(ins), st2, nodes, output_map)

RECURSIVE ExpandNonPrimLoop(_, _, _, _)
ExpandNonPrimLoop(g, st, nodes, output_map) ==
    IF st.node_queue = <<>> THEN st
    ELSE LET curr_node == Head(st.node_queue)
             st1 == [st EXCEPT !.node_queue = Tail(@)]
         IN ExpandNonPrimLoop(g, ExpandNonPrimInputs(g, g[curr_node].inputs, st1,
                                                     nodes, output_map),
                              nodes, output_map)

\* _visit_node over the inputs `ins` of curr_node: [err, args]
RECURSIVE VisitInputs(_, _, _, _, _)
VisitInputs(g, curr_node, ins, node_group, output_map) ==
    IF ins = <<>> THEN [err |-> "", args |-> <<>>]
    ELSE LET input_name == Head(ins)
             item ==
               IF input_name \in DOMAIN output_map
                  /\ output_map[input_name] \in SeqToSet(node_group)
               THEN LET predecessor_node == output_map[input_name]
                        kind == g[predecessor_node].kind
                    IN IF kind = KindListConstruct
                       THEN LET sub == VisitInputs(g, predecessor_node,
                                                   g[predecessor_node].inputs,
                                                   node_group, output_map)
                            IN [err |-> sub.err,
                                args |-> <<[tag |-> "list", list |-> sub.args]>>]
                       ELSE IF kind = KindConstant
                       THEN IF Len(g[predecessor_node].outputs) # 1
                            THEN [err |-> "AssertionError", args |-> <<>>]
                            ELSE IF g[predecessor_node].ivalue = "None"
                            THEN IF g[curr_node].kind \notin NoneArgKinds
                                 THEN [err |-> "AssertionError", args |-> <<>>]
                                 ELSE [err |-> "", args |-> <<>>]
                            ELSE [err |-> "",
                                  args |-> <<[tag |-> "const",
                                              const |-> g[predecessor_node].ivalue]>>]
                       ELSE IF kind \in {KindNumToTensor, KindListUnpack}
                       THEN IF Len(g[predecessor_node].inputs) # 1
                            THEN [err |-> "AssertionError", args |-> <<>>]
                            ELSE [err |-> "",
                                  args |-> <<[tag |-> "name",
                                              name |-> g[predecessor_node].inputs[1]]>>]
                       ELSE [err |-> "RuntimeError", args |-> <<>>]
               ELSE [err |-> "", args |-> <<[tag |-> "name", name |-> input_name]>>]
         IN IF item.err # "" THEN [err |-> item.err, args |-> <<>>]
            ELSE LET rest == VisitInputs(g, curr_node, Tail(ins), node_group, output_map)
                 IN IF rest.err # "" THEN rest
                    ELSE [err |-> "", args |-> item.args \o rest.args]

_visit_node(g, curr_node, node_group, output_map) ==
    VisitInputs(g, curr_node, g[curr_node].inputs, node_group, output_map)

\* returns [err, group]; the caller's global_count is count before the call
_expand_non_prim_node(g, version, count, node, nodes, output_map, module_type) ==
    LET Group(node_name, st) ==
            LET unique_name == IF IsIdentifier(node_name) THEN node_name
                               ELSE Sanitize(node_name)
                nodepy == NodePyGroup(node_name, unique_name, module_type, g[node].kind,
                                      st.node_group, st.inputs, g[node].outputs)
                WithArgs(visit) ==
                    [err |-> visit.err,
                     group |-> [nodepy EXCEPT !.auxiliary =
                                   [isNone |-> FALSE,
                                    dict |-> [k \in {"input_args"} |-> visit.args]]]]
            IN WithArgs(_visit_node(g, node, st.node_group, output_map))
    IN Group(Join(<<_get_module_name(version, g[node].scopeName),
                    g[node].kind, IntToStr(count)>>, "."),
             ExpandNonPrimLoop(g, [node_group |-> <<node>>, node_queue |-> <<node>>,
                                   inputs |-> <<>>], nodes, output_map))

(***************************************************************************)
(* _build_index.  Node groups are identified by their position in nodes_op.*)
(***************************************************************************)
RECURSIVE IndexInputs(_, _, _)
IndexInputs(ins, node, input_map) ==
    IF ins = <<>> THEN input_map
    ELSE LET d == DefaultDictTouch(input_map, Head(ins))
         IN IndexInputs(Tail(ins), node, Put(d, Head(ins), Append(d[Head(ins)], node)))

\* [err, output_to_node]
RECURSIVE IndexOutputs(_, _, _)
IndexOutputs(outs, node, output_map) ==
    IF outs = <<>> THEN [err |-> "", output_to_node |-> output_map]
    ELSE IF Head(outs) \in DOMAIN output_map
    THEN [err |-> "One output cannot be generated by multiple nodes",
          output_to_node |-> output_map]
    ELSE IndexOutputs(Tail(outs), node, Put(output_map, Head(outs), node))

RECURSIVE IndexLoop(_, _, _)
IndexLoop(groups, i, st) ==
    IF i > Len(groups) \/ st.err # "" THEN st
    ELSE LET outs == IndexOutputs(groups[i].outputs, i, st.output_to_node)
         IN IndexLoop(groups, i + 1,
                      [err |-> outs.err,
                       name_to_node |-> Put(st.name_to_node, groups[i].unique_name, i),
                       input_to_node |-> IndexInputs(groups[i].inputs, i, st.input_to_node),
                       output_to_node |-> outs.output_to_node])

_build_index(groups) ==
    IndexLoop(groups, 1, [err |-> "", name_to_node |-> EmptyDict,
                          input_to_node |-> EmptyDict, output_to_node |-> EmptyDict])

(***************************************************************************)
(* _build_graph                                                            *)
(***************************************************************************)
\* the loop over node_cpps of one module: [groups, count]
RECURSIVE ModuleGroupsLoop(_, _, _, _, _, _, _, _, _)
ModuleGroupsLoop(g, module_name, op_type, node_cpps, i, use_count, merged, input_map, output_map) ==
    IF i > Len(node_cpps) THEN <<>>
    ELSE IF node_cpps[i] \in merged
    THEN ModuleGroupsLoop(g, module_name, op_type, node_cpps, i + 1, use_count,
                          merged, input_map, output_map)
    ELSE LET unique_name == IF use_count > 0
                            THEN module_name \o <<".">> \o IntToStr(use_count)
                            ELSE module_name
             Rest(node_group) ==
                 <<node_group>> \o
                 ModuleGroupsLoop(g, module_name, op_type, node_cpps, i + 1, use_count + 1,
                                  merged \cup SeqToSet(node_group.node_cpps),
                                  input_map, output_map)
         IN Rest(_expand_module_node(g, node_cpps[i], module_name, unique_name,
                                     op_type, node_cpps, input_map, output_map,
                                     "module"))

\* the loop over the non-prim nodes of one scope: [err, groups]
RECURSIVE FuncGroupsLoop(_, _, _, _, _, _, _)
FuncGroupsLoop(g, version, count, non_prim_nodes, i, nodes, output_map) ==
    IF i > Len(non_prim_nodes) THEN [err |-> "", groups |-> <<>>]
    ELSE LET Prepend(r, rest) == [err |-> rest.err, groups |-> <<r.group>> \o rest.groups]
             Rest(r) ==
                 IF r.err # "" THEN [err |-> r.err, groups |-> <<>>]
                 ELSE Prepend(r, FuncGroupsLoop(g, version, count + 1, non_prim_nodes,
                                                i + 1, nodes, output_map))
         IN Rest(_expand_non_prim_node(g, version, count, non_prim_nodes[i], nodes,
                                       output_map, "func"))

\* the loop over func_to_nodes.items(): [err, groups]
RECURSIVE FuncScopesLoop(_, _, _, _, _, _)
FuncScopesLoop(g, version, count, scopes, func_nodes, output_map) ==
    IF scopes = <<>> THEN [err |-> "", groups |-> <<>>]
    ELSE LET nodes == SelectSeq(func_nodes, LAMBDA n : g[n].scopeName = Head(scopes))
             non_prim_nodes == SelectSeq(nodes,
                                  LAMBDA n : ~StartsWith(g[n].kind, PrimPrefix))
             Extend(r, rest) == [err |-> rest.err, groups |-> r.groups \o rest.groups]
             Rest(r) ==
                 IF r.err # "" THEN r
                 ELSE Extend(r, FuncScopesLoop(g, version, count + Len(r.groups),
                                               Tail(scopes), func_nodes, output_map))
         IN Rest(FuncGroupsLoop(g, version, count, non_prim_nodes, 1, nodes, output_map))

RECURSIVE ModuleScopesLoop(_, _, _, _, _, _)
ModuleScopesLoop(g, version, module_names, module_to_type, input_map, output_map) ==
    IF module_names = <<>> THEN <<>>
    ELSE LET module_name == Head(module_names)
             node_cpps == SelectSeq([n \in 1..Len(g) |-> n],
                             LAMBDA n : _get_module_name(version, g[n].scopeName)
                                          = module_name)
         IN ModuleGroupsLoop(g, module_name, module_to_type[module_name], node_cpps, 1,
                             0, {}, input_map, output_map)
            \o ModuleScopesLoop(g, version, Tail(module_names), module_to_type,
                                input_map, output_map)

\* _build_graph up to self.nodes_py = nodes_py.  tr: the trace; count:
\* global_count before the call
_build_graph(tr, version, count) ==
    LET g == tr.graph
        output_map == TraceOutputToNode(g)
        input_map == TraceInputToNode(g)
        module_to_type == [name \in DOMAIN tr.modules |->
                              parse_traced_name(tr.modules[name])]
        all == [n \in 1..Len(g) |-> n]
        Result(leaves, module_groups, funcs) ==
            [err |-> funcs.err,
             leaf_modules |-> leaves,
             nodes_op |-> module_groups \o funcs.groups,
             global_count |-> count + Len(module_groups) + Len(funcs.groups)]
        Funcs(leaves, func_nodes, module_groups) ==
            Result(leaves, module_groups,
                   FuncScopesLoop(g, version, count + Len(module_groups),
                                  InsertionOrder([k \in 1..Len(func_nodes) |->
                                                     g[func_nodes[k]].scopeName]),
                                  func_nodes, output_map))
        Modules(leaves, module_nodes, func_nodes) ==
            Funcs(leaves, func_nodes,
                  ModuleScopesLoop(g, version,
                                   InsertionOrder([k \in 1..Len(module_nodes) |->
                                      _get_module_name(version,
                                                       g[module_nodes[k]].scopeName)]),
                                   module_to_type, input_map, output_map))
        Split2(leaves, is_module) ==
            Modules(leaves, SelectSeq(all, LAMBDA n : is_module[n]),
                    SelectSeq(all, LAMBDA n : ~is_module[n]))
        Leaves(leaves) ==
            Split2(leaves, [n \in 1..Len(g) |->
                               _get_module_name(version, g[n].scopeName)
                                  \in SeqToSet(leaves)])
    IN Leaves(_extract_leaf_modules(DOMAIN tr.modules))

(***************************************************************************)
(* _extract_auxiliary_info                                                 *)
(***************************************************************************)
\* tensor sizes come from the trace and are not interpreted
_extract_shape_info(node) == [k \in {"in_shape", "out_shape"} |-> "sizes"]

_extract_cat_info(node_group, cpp_node) == EmptyDict

_extract_auxiliary_info(g, groups) ==
    [i \in 1..Len(groups) |->
        LET node_group == groups[i]
            matching == SelectSeq(node_group.node_cpps,
                                  LAMBDA n : g[n].kind = node_group.op_type)
            info == IF node_group.op_type \in ShapeKinds
                    THEN _extract_shape_info(matching[1])
                    ELSE _extract_cat_info(node_group, matching[1])
        IN IF node_group.op_type \in ShapeKinds \/ node_group.op_type = CAT_KIND
           THEN [node_group EXCEPT !.auxiliary =
                    [isNone |-> FALSE,
                     dict |-> IF node_group.auxiliary.isNone THEN info
                              ELSE Update(node_group.auxiliary.dict, info)]]
           ELSE node_group]

(***************************************************************************)
(* Queries on the built graph.                                             *)
(***************************************************************************)
RECURSIVE PredecessorsLoop(_, _, _)
PredecessorsLoop(ins, groups, output_map) ==
    IF ins = <<>> THEN <<>>
    ELSE IF Head(ins) \notin DOMAIN output_map
    THEN PredecessorsLoop(Tail(ins), groups, output_map)
    ELSE <<groups[output_map[Head(ins)]].unique_name>>
         \o PredecessorsLoop(Tail(ins), groups, output_map)

\* find_predecessors walking the outputs of the node instead of its inputs
find_predecessors_outputs(unique_name, groups, name_map, output_map) ==
    PredecessorsLoop(groups[name_map[unique_name]].outputs, groups, output_map)

find_predecessors(unique_name, groups, name_map, output_map) ==
    PredecessorsLoop(groups[name_map[unique_name]].inputs, groups, output_map)

\* [successors, input_to_node]
RECURSIVE SuccessorsLoop(_, _, _)
SuccessorsLoop(outs, groups, input_map) ==
    IF outs = <<>> THEN [successors |-> <<>>, input_to_node |-> input_map]
    ELSE IF Head(outs) \notin DOMAIN input_map
    THEN SuccessorsLoop(Tail(outs), groups, input_map)
    ELSE LET d == DefaultDictTouch(input_map, Head(outs))
             nodes_py == d[Head(outs)]
             rest == SuccessorsLoop(Tail(outs), groups, d)
         IN [successors |-> [k \in 1..Len(nodes_py) |-> groups[nodes_py[k]].unique_name]
                            \o rest.successors,
             input_to_node |-> rest.input_to_node]

\* find_successors keeping one consumer per output
RECURSIVE SuccessorsLoopFirst(_, _, _)
SuccessorsLoopFirst(outs, groups, input_map) ==
    IF outs = <<>> THEN [successors |-> <<>>, input_to_node |-> input_map]
    ELSE IF Head(outs) \notin DOMAIN input_map
    THEN SuccessorsLoopFirst(Tail(outs), groups, input_map)
    ELSE LET rest == SuccessorsLoopFirst(Tail(outs), groups, input_map)
         IN [successors |-> <<groups[input_map[Head(outs)][1]].unique_name>>
                            \o rest.successors,
             input_to_node |-> rest.input_to_node]

find_successors_first(unique_name, groups, name_map, input_map) ==
    SuccessorsLoopFirst(groups[name_map[unique_name]].outputs, groups, input_map)

find_successors(unique_name, groups, name_map, input_map) ==
    SuccessorsLoop(groups[name_map[unique_name]].outputs, groups, input_map)

(***************************************************************************)
(* build_module_hierarchy.  A TreeNode is identified by its path from the  *)
(* root (the sequence of local names); the tree maps each path to the      *)
(* graph_nodes list of that TreeNode.                                      *)
(***************************************************************************)
\* insert_scope_name: the tree nodes on the path of name_slices
insert_scope_name(name_slices) == {SubSeq(name_slices, 1, i) : i \in 1..Len(name_slices)}

\* attach_node_to_tree: the TreeNode that receives the node; attached is FALSE
\* when the loop over name_slices ends without reaching the else branch
RECURSIVE attach_node_to_tree(_, _, _)
attach_node_to_tree(paths, curr_node, name_slices) ==
    IF name_slices = <<>> THEN [attached |-> FALSE, tnode |-> curr_node]
    ELSE IF Append(curr_node, Head(name_slices)) \in paths
    THEN attach_node_to_tree(paths, Append(curr_node, Head(name_slices)), Tail(name_slices))
    ELSE [attached |-> TRUE, tnode |-> curr_node]

\* [err, tree]
build_module_hierarchy(g, version, groups, name_map) ==
    LET paths == {<<>>} \cup UNION {
                    insert_scope_name(
                        Split(Replace(Split(g[n].scopeName, "/")[Len(Split(g[n].scopeName, "/"))],
                                      ModulePrefix, <<>>), "."))
                    : n \in 1..Len(g)}
        keys == InsertionOrder([i \in 1..Len(groups) |-> groups[i].unique_name])
        items == [k \in 1..Len(keys) |-> name_map[keys[k]]]
        target(i) == attach_node_to_tree(paths, <<>>, Split(groups[i].name, "."))
    IN IF ~StrGE(version, V140)
       THEN [err |-> "Only support PyTorch >= 1.4.0", tree |-> EmptyDict]
       ELSE [err |-> "",
             tree |-> [p \in paths |->
                         SelectSeq(items, LAMBDA i : target(i).attached
                                                     /\ target(i).tnode = p)]]

(***************************************************************************)
(* Python objects handed to the constructor.  A module object carries the  *)
(* graph and the named_modules() that tracing it yields.                   *)
(***************************************************************************)
None == [cls |-> "NoneType", graph |-> <<>>, modules |-> EmptyDict]

Object(cls, g, mods) == [cls |-> cls, graph |-> g, modules |-> mods]

\* torch.jit.trace(model, dummy_input)
jit_trace(m) == Object("TopLevelTracedModule", m.graph, m.modules)

ProvideMessage == "Please provide model & dummy_input or the traced_model as inputs"

NoRetval == [op |-> "", arg |-> <<>>, value |-> <<>>]

(***************************************************************************)
(* Actions.                                                                *)
(***************************************************************************)
\* TorchGraph.__init__ with the model and dummy_input tested before traced_model
TorchGraph_init_model_first(version, m, dummy, traced) ==
    IF ~StrGE(version, V131)
    THEN [err |-> "AssertionError", trace |-> None, bound_model |-> None, calls |-> 0]
    ELSE IF m # None /\ dummy # "None"
    THEN [err |-> "", trace |-> jit_trace(m), bound_model |-> m, calls |-> 1]
    ELSE IF traced # None
    THEN IF traced.cls # "TopLevelTracedModule"
         THEN [err |-> "AssertionError", trace |-> None, bound_model |-> None, calls |-> 0]
         ELSE [err |-> "", trace |-> traced, bound_model |-> None, calls |-> 0]
    ELSE [err |-> ProvideMessage, trace |-> None, bound_model |-> None, calls |-> 0]

\* TorchGraph.__init__: [err, trace, bound_model, calls], calls being the
\* number of torch.jit.trace calls made
TorchGraph_init(version, m, dummy, traced) ==
    IF ~StrGE(version, V131)
    THEN [err |-> "AssertionError", trace |-> None, bound_model |-> None, calls |-> 0]
    ELSE IF traced # None
    THEN IF traced.cls # "TopLevelTracedModule"
         THEN [err |-> "AssertionError", trace |-> None, bound_model |-> None, calls |-> 0]
         ELSE [err |-> "", trace |-> traced, bound_model |-> None, calls |-> 0]
    ELSE IF m # None /\ dummy # "None"
    THEN [err |-> "", trace |-> jit_trace(m), bound_model |-> m, calls |-> 1]
    ELSE [err |-> ProvideMessage, trace |-> None, bound_model |-> None, calls |-> 0]

\* TorchGraph(model, dummy_input, traced_model)
TorchGraphInit ==
    /\ pc = "start"
    /\ LET r == TorchGraph_init(torch_version, model, dummy_input, traced_model)
       IN IF r.err # ""
          THEN /\ pc' = "error"
               /\ error' = r.err
               /\ UNCHANGED <<trace, bound_model, jit_trace_calls>>
          ELSE /\ pc' = "traced"
               /\ trace' = r.trace
               /\ bound_model' = r.bound_model
               /\ jit_trace_calls' = jit_trace_calls + r.calls
               /\ UNCHANGED error
    /\ UNCHANGED <<args, result>>
    /\ UNCHANGED <<torch_version, model, dummy_input, traced_model, global_count,
                   leaf_modules, nodes_op, name_to_node, input_to_node,
                   output_to_node, retval>>

\* TorchModuleGraph.__init__ after super().__init__: global_count = 0, then
\* _build_graph up to self.nodes_py = nodes_py
BuildGraph ==
    /\ pc = "traced"
    /\ LET Assign(r) ==
             IF r.err # ""
             THEN /\ pc' = "error"
                  /\ error' = r.err
                  /\ UNCHANGED <<global_count, leaf_modules, nodes_op>>
             ELSE /\ pc' = "grouped"
                  /\ global_count' = r.global_count
                  /\ leaf_modules' = r.leaf_modules
                  /\ nodes_op' = r.nodes_op
                  /\ UNCHANGED error
       IN Assign(_build_graph(trace, torch_version, 0))
    /\ UNCHANGED <<args, result>>
    /\ UNCHANGED <<torch_version, model, dummy_input, traced_model, trace,
                   jit_trace_calls, retval, bound_model, name_to_node,
                   input_to_node, output_to_node>>

\* the return of _build_graph: self._build_index(self.nodes_py.nodes_op)
BuildIndex ==
    /\ pc = "grouped"
    /\ LET r == _build_index(nodes_op)
       IN IF r.err # ""
          THEN /\ pc' = "error"
               /\ error' = r.err
               /\ UNCHANGED <<name_to_node, input_to_node, output_to_node>>
          ELSE /\ pc' = "built"
               /\ name_to_node' = r.name_to_node
               /\ input_to_node' = r.input_to_node
               /\ output_to_node' = r.output_to_node
               /\ UNCHANGED error
    /\ UNCHANGED <<args, result>>
    /\ UNCHANGED <<torch_version, model, dummy_input, traced_model, trace,
                   jit_trace_calls, retval, bound_model, global_count, leaf_modules,
                   nodes_op>>

\* TorchModuleGraph.__init__: the closing _extract_auxiliary_info
ExtractAuxiliaryInfo ==
    /\ pc = "built"
    /\ pc' = "ready"
    /\ nodes_op' = _extract_auxiliary_info(trace.graph, nodes_op)
    /\ UNCHANGED <<args, result>>
    /\ UNCHANGED <<torch_version, model, dummy_input, traced_model, error, trace,
                   jit_trace_calls, global_count, leaf_modules, name_to_node,
                   input_to_node, output_to_node, retval, bound_model>>

FindPredecessors ==
    /\ pc = "ready"
    /\ pc' = "returned"
    /\ \E unique_name \in DOMAIN name_to_node :
          retval' = [op |-> "find_predecessors", arg |-> unique_name,
                     value |-> find_predecessors(unique_name, nodes_op, name_to_node,
                                                 output_to_node)]
    /\ UNCHANGED <<args, result>>
    /\ UNCHANGED <<torch_version, model, dummy_input, traced_model, error, trace,
                   jit_trace_calls, global_count, leaf_modules, nodes_op, name_to_node,
                   input_to_node, output_to_node, bound_model>>

FindSuccessors ==
    /\ pc = "ready"
    /\ pc' = "returned"
    /\ \E unique_name \in DOMAIN name_to_node :
          LET r == find_successors(unique_name, nodes_op, name_to_node, input_to_node)
          IN /\ retval' = [op |-> "find_successors", arg |-> unique_name,
                           value |-> r.successors]
             /\ input_to_node' = r.input_to_node
    /\ UNCHANGED <<args, result>>
    /\ UNCHANGED <<torch_version, model, dummy_input, traced_model, error, trace,
                   jit_trace_calls, global_count, leaf_modules, nodes_op, name_to_node,
                   output_to_node, bound_model>>

BuildModuleHierarchy ==
    /\ pc = "ready"
    /\ pc' = "returned"
    /\ LET r == build_module_hierarchy(trace.graph, torch_version, nodes_op, name_to_node)
       IN retval' = [op |-> "build_module_hierarchy", arg |-> r.err, value |-> r.tree]
    /\ UNCHANGED <<args, result>>
    /\ UNCHANGED <<torch_version, model, dummy_input, traced_model, error, trace,
                   jit_trace_calls, global_count, leaf_modules, nodes_op, name_to_node,
                   input_to_node, output_to_node, bound_model>>

\* the caller takes the value returned by a query; the graph object lives on
Return ==
    /\ pc = "returned"
    /\ pc' = "ready"
    /\ retval' = NoRetval
    /\ UNCHANGED <<args, result>>
    /\ UNCHANGED <<torch_version, model, dummy_input, traced_model, error, trace,
                   jit_trace_calls, global_count, leaf_modules, nodes_op, name_to_node,
                   input_to_node, output_to_node, bound_model>>

\* _extract_leaf_modules applied to the trace on its own
ExtractLeafModules ==
    /\ pc = "traced"
    /\ pc' = "leaves"
    /\ leaf_modules' = _extract_leaf_modules(DOMAIN trace.modules)
    /\ UNCHANGED <<args, result>>
    /\ UNCHANGED <<torch_version, model, dummy_input, traced_model, error, trace,
                   jit_trace_calls, global_count, nodes_op, name_to_node,
                   input_to_node, output_to_node, retval, bound_model>>

(***************************************************************************)
(* Traces of the checked instances.  Values (debugNames) are numbers: 0 is *)
(* the graph input and node n produces the value n.                        *)
(***************************************************************************)
TraceNode(kind, scopeName, inputs, n, ivalue) ==
    [kind |-> kind, scopeName |-> scopeName, inputs |-> inputs, outputs |-> <<n>>,
     ivalue |-> ivalue]

\* the scopeName torch >= 1.4.0 gives to code of the module `name`
ScopeOf(name) ==
    IF name = <<>> THEN <<>>
    ELSE LET parts == Split(name, ".")
         IN Join([i \in 1..Len(parts) |-> ModulePrefix \o Join(SubSeq(parts, 1, i), ".")],
                 "/")

RawModuleName == <<"T", "r", "a", "c", "e", "d", "M", "o", "d", "u", "l", "e", "[", "C", "o", "n", "v", "2", "d", "]">>

Inputs1(n) == {<<v>> : v \in 0..(n - 1)}
Inputs2(n) == {p \in (0..(n - 1)) \X (0..(n - 1)) : p[1] < p[2]}

LeafName == <<"c", "o", "n", "v">>

MainModules == [name \in {<<>>, LeafName} |-> RawModuleName]

\* the trace nodes that may stand at position n of the graph
NodeChoices(n) ==
    {TraceNode(KindConstant, ScopeOf(LeafName), <<>>, n, "int")}
    \cup {TraceNode(KindConvolution, ScopeOf(LeafName), i, n, "n/a") : i \in Inputs1(n)}
    \cup {TraceNode(KindConstant, <<>>, <<>>, n, v) : v \in {"None", "int"}}
    \cup {TraceNode(GETATTR_KIND, <<>>, <<>>, n, "n/a")}
    \cup {TraceNode(KindListConstruct, <<>>, i, n, "n/a") : i \in Inputs1(n)}
    \cup {TraceNode(KindMean, <<>>, i, n, "n/a") : i \in Inputs1(n)}
    \cup {TraceNode(CAT_KIND, <<>>, i, n, "n/a") : i \in Inputs2(n)}

RECURSIVE GraphsOfLen(_)
GraphsOfLen(n) ==
    IF n = 0 THEN {<<>>}
    ELSE {Append(g, c) : g \in GraphsOfLen(n - 1), c \in NodeChoices(n)}

InitCommon ==
    /\ pc = "start"
    /\ error = ""
    /\ trace = None
    /\ bound_model = None
    /\ jit_trace_calls = 0
    /\ global_count = 0
    /\ leaf_modules = <<>>
    /\ nodes_op = <<>>
    /\ name_to_node = EmptyDict
    /\ input_to_node = EmptyDict
    /\ output_to_node = EmptyDict
    /\ retval = NoRetval
    /\ args = <<>>
    /\ result = <<>>

\* build_module_graph(model, dummy_input) under torch 1.4.0
Init ==
    /\ torch_version = V140
    /\ \E n \in 1..MaxNodes : \E g \in GraphsOfLen(n) : model = Object("Module", g, MainModules)
    /\ dummy_input = "Tensor"
    /\ traced_model = None
    /\ InitCommon

Next ==
    \/ TorchGraphInit
    \/ BuildGraph
    \/ BuildIndex
    \/ ExtractAuxiliaryInfo
    \/ FindPredecessors
    \/ FindSuccessors
    \/ BuildModuleHierarchy
    \/ Return

Spec == Init /\ [][Next]_vars

(***************************************************************************)
(* Module trees: named_modules() of a model whose submodules carry local   *)
(* names of LocalNames; every module comes with all its ancestors.         *)
(***************************************************************************)
LocalNames == {<<"a">>, <<"a", "-", "b">>, <<"1">>, <<"_", "a", "t", "e", "n", "_", "_", "m", "e", "a", "n", "_", "1">>}

Children(S) == {IF p = <<>> THEN l ELSE p \o <<".">> \o l : p \in S \cup {<<>>}, l \in LocalNames}

RECURSIVE Forests(_)
Forests(k) ==
    IF k = 0 THEN {{}}
    ELSE LET smaller == Forests(k - 1)
         IN smaller \cup UNION {{S \cup {n} : n \in Children(S)} : S \in smaller}

ModulesOf(S) == [name \in S \cup {<<>>} |-> RawModuleName]

\* _extract_leaf_modules on the module trees
InitLeaf ==
    /\ torch_version = V140
    /\ model = None
    /\ dummy_input = "None"
    /\ \E S \in Forests(MaxModules) :
          /\ traced_model = Object("TopLevelTracedModule", <<>>, ModulesOf(S))
          /\ trace = traced_model
    /\ pc = "traced"
    /\ error = ""
    /\ bound_model = None
    /\ jit_trace_calls = 0
    /\ global_count = 0
    /\ leaf_modules = <<>>
    /\ nodes_op = <<>>
    /\ name_to_node = EmptyDict
    /\ input_to_node = EmptyDict
    /\ output_to_node = EmptyDict
    /\ retval = NoRetval
    /\ args = <<>>
    /\ result = <<>>

SpecLeaf == InitLeaf /\ [][ExtractLeafModules]_vars

\* graphs of aten::mean calls on the graph input, spread over the module tree
RECURSIVE NamedGraphsOfLen(_, _)
NamedGraphsOfLen(S, n) ==
    IF n = 0 THEN {<<>>}
    ELSE {Append(g, TraceNode(KindMean, ScopeOf(name), <<0>>, n, "n/a")) :
             g \in NamedGraphsOfLen(S, n - 1), name \in S \cup {<<>>}}

InitNames ==
    /\ torch_version = V140
    /\ \E S \in Forests(MaxModules - 1) : \E n \in 1..MaxNodes :
          \E g \in NamedGraphsOfLen(S, n) : model = Object("Module", g, ModulesOf(S))
    /\ dummy_input = "Tensor"
    /\ traced_model = None
    /\ InitCommon

SpecNames == InitNames /\ [][Next]_vars

\* TorchGraph(model, dummy_input, traced_model) under several torch versions
Versions == {<<"1", ".", "2", ".", "0">>, <<"1", ".", "3", ".", "0">>, <<"1", ".", "3", ".", "1">>, <<"1", ".", "4", ".", "0">>, <<"1", ".", "5", ".", "0">>, <<"1", ".", "1", "0", ".", "0">>}

SmallGraph == <<TraceNode(KindMean, <<>>, <<0>>, 1, "n/a")>>

InitArgs ==
    /\ torch_version \in Versions
    /\ model \in {None, Object("Module", SmallGraph, ModulesOf({}))}
    /\ dummy_input \in {"None", "Tensor"}
    /\ traced_model \in {None, Object("TopLevelTracedModule", <<>>, ModulesOf({})),
                         Object("ScriptModule", <<>>, ModulesOf({}))}
    /\ InitCommon

SpecInit == InitArgs /\ [][TorchGraphInit]_vars

(***************************************************************************)
(* Reference notions the properties are stated with, defined on the trace  *)
(* itself and not through the indexes the code builds.                     *)
(***************************************************************************)
Graph == trace.graph

Constructed == pc \in {"built", "ready", "returned"}

Grouped == pc \in {"grouped", "built", "ready", "returned"}

\* a produces a value that b consumes
Feeds(a, b) == SeqToSet(Graph[a].outputs) \cap SeqToSet(Graph[b].inputs) # {}

IsPrim(n) == StartsWith(Graph[n].kind, PrimPrefix)

\* the nodes of `nodes` linked to S by producer/consumer chains inside `nodes`
RECURSIVE Connected(_, _)
Connected(S, nodes) ==
    LET more == S \cup {n \in nodes : \E m \in S : Feeds(m, n) \/ Feeds(n, m)}
    IN IF more = S THEN S ELSE Connected(more, nodes)

\* the prim:: nodes of `nodes` reached from S backwards through prim:: nodes
RECURSIVE BackwardPrims(_, _)
BackwardPrims(S, nodes) ==
    LET more == S \cup {n \in nodes : IsPrim(n) /\ \E m \in S : Feeds(n, m)}
    IN IF more = S THEN S ELSE BackwardPrims(more, nodes)

SameScope(n) == {m \in 1..Len(Graph) : Graph[m].scopeName = Graph[n].scopeName}

Producers(v) == {i \in 1..Len(nodes_op) : v \in SeqToSet(nodes_op[i].outputs)}

Consumers(v) == {i \in 1..Len(nodes_op) : v \in SeqToSet(nodes_op[i].inputs)}

GroupNamed(unique_name) ==
    nodes_op[CHOOSE i \in 1..Len(nodes_op) : nodes_op[i].unique_name = unique_name]

OutputAssertion == "One output cannot be generated by multiple nodes"

(***************************************************************************)
(* C1: when every value of the trace is produced by exactly one trace      *)
(* node, building the graph never fails the _build_index assertion "One    *)
(* output cannot be generated by multiple nodes".                          *)
(***************************************************************************)
C1_NoOutputGeneratedTwice ==
    (\A n, m \in 1..Len(model.graph) :
        n # m => SeqToSet(model.graph[n].outputs) \cap SeqToSet(model.graph[m].outputs) = {})
    => error # OutputAssertion

(***************************************************************************)
(* C2: the group returned by _expand_module_node holds every node of the   *)
(* module's node list that is connected to the seed node by producer/      *)
(* consumer links inside that list.                                        *)
(***************************************************************************)
C2_GroupHoldsConnectedNodes ==
    Grouped =>
        \A i \in 1..Len(nodes_op) :
            nodes_op[i].type = "module" =>
                Connected({nodes_op[i].node_cpps[1]}, SameScope(nodes_op[i].node_cpps[1]))
                    \subseteq SeqToSet(nodes_op[i].node_cpps)

(***************************************************************************)
(* C3: after _build_graph no two node groups have the same unique_name,    *)
(* and name_to_node has one entry per node group.                          *)
(***************************************************************************)
C3_UniqueNamesAreUnique ==
    Constructed =>
        /\ \A i, j \in 1..Len(nodes_op) :
              i # j => nodes_op[i].unique_name # nodes_op[j].unique_name
        /\ Cardinality(DOMAIN name_to_node) = Len(nodes_op)

(***************************************************************************)
(* C4: find_predecessors(unique_name) returns, for each input of the node  *)
(* that some node group outputs, in input order, the unique_name of the    *)
(* one group listing it among its outputs, and nothing for the others.     *)
(***************************************************************************)
C4_PredecessorsAreProducers ==
    retval.op = "find_predecessors" =>
        LET produced == SelectSeq(GroupNamed(retval.arg).inputs,
                                  LAMBDA v : Producers(v) # {})
        IN /\ Len(retval.value) = Len(produced)
           /\ \A k \in 1..Len(produced) :
                 {nodes_op[i].unique_name : i \in Producers(produced[k])}
                     = {retval.value[k]}

C4_Witness ==
    /\ retval.op = "find_predecessors"
    /\ Len(retval.value) >= 1
    /\ Len(GroupNamed(retval.arg).inputs) > Len(retval.value)

(***************************************************************************)
(* C5: find_successors(unique_name) returns the unique_names of all node   *)
(* groups that list an output of the node among their inputs, nothing for  *)
(* an output no group consumes, and adds no key to input_to_node.          *)
(***************************************************************************)
C5_SuccessorsAreConsumers ==
    /\ retval.op = "find_successors" =>
          SeqToSet(retval.value) =
              {nodes_op[j].unique_name :
                  j \in UNION {Consumers(v) : v \in SeqToSet(GroupNamed(retval.arg).outputs)}}
    /\ Constructed =>
          DOMAIN input_to_node =
              UNION {SeqToSet(nodes_op[i].inputs) : i \in 1..Len(nodes_op)}

C5_Witness ==
    /\ retval.op = "find_successors"
    /\ Cardinality(SeqToSet(retval.value)) >= 2

(***************************************************************************)
(* C6: _extract_leaf_modules returns exactly the non-empty module names    *)
(* that no other module name has as a dotted-prefix parent.                *)
(***************************************************************************)
C6_LeafModulesHaveNoChild ==
    pc = "leaves" =>
        SeqToSet(leaf_modules) =
            {n \in DOMAIN trace.modules \ {<<>>} :
                ~\E m \in DOMAIN trace.modules : is_parent(n, m)}

(***************************************************************************)
(* C7: in the tree returned by build_module_hierarchy every node group of  *)
(* name_to_node is in the graph_nodes of exactly one tree node.            *)
(***************************************************************************)
C7_EveryGroupAttachedOnce ==
    (retval.op = "build_module_hierarchy" /\ retval.arg = "") =>
        \A u \in DOMAIN name_to_node :
            Cardinality({<<p, k>> \in
                            UNION {{<<q, l>> : l \in 1..Len(retval.value[q])} :
                                       q \in DOMAIN retval.value} :
                            retval.value[p][k] = name_to_node[u]}) = 1

(***************************************************************************)
(* C8: a group returned by _expand_non_prim_node is the non-prim seed plus *)
(* exactly the prim:: nodes of the same scope reached from it backwards    *)
(* through such prim:: nodes; its outputs are the seed's outputs and its   *)
(* op_type is the seed's kind.                                             *)
(***************************************************************************)
C8_OnlyPrimNodesMerged ==
    Grouped =>
        \A i \in 1..Len(nodes_op) :
            nodes_op[i].type = "func" =>
                LET seed == nodes_op[i].node_cpps[1]
                IN /\ ~IsPrim(seed)
                   /\ SeqToSet(nodes_op[i].node_cpps) = BackwardPrims({seed}, SameScope(seed))
                   /\ nodes_op[i].outputs = Graph[seed].outputs
                   /\ nodes_op[i].op_type = Graph[seed].kind

C8_Witness ==
    /\ pc = "ready"
    /\ \E i \in 1..Len(nodes_op) :
          /\ nodes_op[i].type = "func"
          /\ Len(nodes_op[i].node_cpps) >= 2
          /\ \E n \in 1..Len(Graph) :
                /\ n \notin SeqToSet(nodes_op[i].node_cpps)
                /\ IsPrim(n)
                /\ \E m \in SeqToSet(nodes_op[i].node_cpps) : Feeds(n, m)

(***************************************************************************)
(* C9 as stated: a given traced_model is always taken as the trace without *)
(* tracing; else a given model and dummy_input are traced; else the        *)
(* 'Please provide ...' exception is raised and no trace is set.           *)
(***************************************************************************)
C9_DispatchOnArgumentsAlone ==
    pc # "start" =>
        IF traced_model # None
        THEN pc = "traced" /\ trace = traced_model /\ jit_trace_calls = 0
        ELSE IF model # None /\ dummy_input # "None"
        THEN pc = "traced" /\ trace = jit_trace(model) /\ jit_trace_calls = 1
        ELSE pc = "error" /\ error = ProvideMessage /\ trace = None

(***************************************************************************)
(* C9 amended: the dispatch on the arguments happens once the assertions   *)
(* of __init__ pass (torch.__version__ >= '1.3.1' as strings, and a given  *)
(* traced_model is a TopLevelTracedModule); otherwise an AssertionError is *)
(* raised, nothing is traced and no trace is set.                          *)
(***************************************************************************)
C9_DispatchAfterAssertions ==
    pc # "start" =>
        IF ~StrGE(torch_version, V131)
           \/ (traced_model # None /\ traced_model.cls # "TopLevelTracedModule")
        THEN pc = "error" /\ error = "AssertionError" /\ trace = None
             /\ jit_trace_calls = 0
        ELSE IF traced_model # None
        THEN pc = "traced" /\ trace = traced_model /\ jit_trace_calls = 0
        ELSE IF model # None /\ dummy_input # "None"
        THEN pc = "traced" /\ trace = jit_trace(model) /\ jit_trace_calls = 1
        ELSE pc = "error" /\ error = ProvideMessage /\ trace = None
             /\ jit_trace_calls = 0

C9_Witness ==
    /\ pc = "traced"
    /\ traced_model # None
    /\ model # None
    /\ dummy_input # "None"
    /\ trace = traced_model
    /\ jit_trace_calls = 0

(***************************************************************************)
(* C10: after _extract_auxiliary_info every node group with op_type        *)
(* aten::cat carries the keys 'cat_dim', 'out_shape', 'in_order' and       *)
(* 'in_shape' in its auxiliary dict.                                       *)
(***************************************************************************)
C10_CatInfoHasFourKeys ==
    pc \in {"ready", "returned"} =>
        \A i \in 1..Len(nodes_op) :
            nodes_op[i].op_type = CAT_KIND =>
                /\ ~nodes_op[i].auxiliary.isNone
                /\ {"cat_dim", "out_shape", "in_order", "in_shape"}
                       \subseteq DOMAIN nodes_op[i].auxiliary.dict

(***************************************************************************)
(* Functions called on their own: no TorchModuleGraph is under             *)
(* construction, the arguments are in args and the value goes to result.   *)
(***************************************************************************)
InitCall ==
    /\ model = None
    /\ dummy_input = "None"
    /\ traced_model = None
    /\ pc = "call"
    /\ error = ""
    /\ trace = None
    /\ bound_model = None
    /\ jit_trace_calls = 0
    /\ global_count = 0
    /\ leaf_modules = <<>>
    /\ nodes_op = <<>>
    /\ name_to_node = EmptyDict
    /\ input_to_node = EmptyDict
    /\ output_to_node = EmptyDict
    /\ retval = NoRetval
    /\ result = <<>>

(***************************************************************************)
(* _get_module_name on the scope names the two trace formats give to the   *)
(* code of a submodule reached by a path of attribute names.               *)
(***************************************************************************)
ScopeLocalNames == {<<"a">>, <<"b", "1">>, <<"x", "_", "_", "m", "o", "d", "u", "l", "e">>}

\* attribute paths of at most k names
RECURSIVE AttrPaths(_)
AttrPaths(k) ==
    IF k = 0 THEN {<<>>}
    ELSE LET shorter == AttrPaths(k - 1)
         IN shorter \cup {Append(q, l) : q \in shorter, l \in ScopeLocalNames}

\* the scopeName torch 1.3.1 gives to code of the module at `path`
Scope131Of(path) ==
    Join(<<<<"M", "y", "M", "o", "d", "e", "l">>>>
         \o [i \in 1..Len(path) |-> <<"C", "o", "n", "v", "2", "d", "[">> \o path[i] \o <<"]">>],
         "/")

InitScope ==
    /\ torch_version \in {V131, V140}
    /\ \E path \in AttrPaths(MaxModules) :
          args = [name |-> Join(path, "."),
                  scope_name |-> IF torch_version = V140
                                 THEN ScopeOf(Join(path, "."))
                                 ELSE Scope131Of(path)]
    /\ InitCall

\* self._get_module_name(scope_name)
GetModuleName ==
    /\ pc = "call"
    /\ pc' = "done"
    /\ result' = _get_module_name(torch_version, args.scope_name)
    /\ UNCHANGED <<torch_version, model, dummy_input, traced_model, error, trace,
                   jit_trace_calls, global_count, leaf_modules, nodes_op, name_to_node,
                   input_to_node, output_to_node, retval, bound_model, args>>

SpecScope == InitScope /\ [][GetModuleName]_vars

(***************************************************************************)
(* C11: _get_module_name retrieves the module name from the scope name:    *)
(* for the scope name either trace format (torch 1.3.1, torch 1.4.0) gives *)
(* to the code of a module, the value returned is the dotted name of that  *)
(* module, e.g. 'backbone.conv2'.                                          *)
(***************************************************************************)
C11_ModuleNameFromScope ==
    pc = "done" => result = args.name

(***************************************************************************)
(* retiarii_perf/mnasnet.py: _round_to_multiple_of.  val is a whole number *)
(* (a depth times alpha = 1.0), so that int(val + divisor / 2) is          *)
(* val + divisor \div 2, and new_val >= 0.9 * val is compared in tenths.   *)
(***************************************************************************)
MaxVal == 96
MaxDivisor == 9

\* round_up_bias=0.9, as a fraction
round_up_bias == [num |-> 9, den |-> 10]

Max(a, b) == IF a >= b THEN a ELSE b

\* _round_to_multiple_of without the second line: the rounded value as it is
_round_to_multiple_of_unbiased(val, divisor) ==
    Max(divisor, ((val + divisor \div 2) \div divisor) * divisor)

_round_to_multiple_of(val, divisor) ==
    LET new_val == Max(divisor, ((val + divisor \div 2) \div divisor) * divisor)
    IN IF round_up_bias.den * new_val >= round_up_bias.num * val
       THEN new_val
       ELSE new_val + divisor

InitRound ==
    /\ torch_version = V140
    /\ args \in [val : 1..MaxVal, divisor : 1..MaxDivisor]
    /\ InitCall

\* _round_to_multiple_of(val, divisor)
RoundToMultipleOf ==
    /\ pc = "call"
    /\ pc' = "done"
    /\ result' = _round_to_multiple_of(args.val, args.divisor)
    /\ UNCHANGED <<torch_version, model, dummy_input, traced_model, error, trace,
                   jit_trace_calls, global_count, leaf_modules, nodes_op, name_to_node,
                   input_to_node, output_to_node, retval, bound_model, args>>

SpecRound == InitRound /\ [][RoundToMultipleOf]_vars

\* the multiples of divisor around val
SmallerMultiple(val, divisor) == (val \div divisor) * divisor

NextMultiple(val, divisor) == ((val + divisor - 1) \div divisor) * divisor

\* the multiple of divisor nearest to val, a tie going up, never below divisor
NearestMultiple(val, divisor) ==
    LET m == CHOOSE x \in {k * divisor : k \in 0..(val + 1)} :
                 2 * x - divisor <= 2 * val /\ 2 * val < 2 * x + divisor
    IN Max(divisor, m)

_FIRST_DEPTH == 32
_MOBILENET_V2_FILTERS == <<16, 24, 32, 64, 96, 160, 320>>
_MOBILENET_V2_NUM_LAYERS == <<1, 2, 3, 4, 3, 3, 1>>

Conv2d(in_ch, out_ch, kernel_size, stride, groups) ==
    [cls |-> "Conv2d", in_ch |-> in_ch, out_ch |-> out_ch, kernel_size |-> kernel_size,
     stride |-> stride, groups |-> groups]

BatchNorm2d(ch) == [cls |-> "BatchNorm2d", ch |-> ch]

ReLU == [cls |-> "ReLU"]

Sequential(modules) == [cls |-> "Sequential", modules |-> modules]

_ResidualBlock(net) == [cls |-> "_ResidualBlock", net |-> net]

NoModule == [cls |-> "NoneType"]

\* _InvertedResidual.__init__: [err, module]
_InvertedResidual(in_ch, out_ch, kernel_size, stride, expansion_factor, skip) ==
    IF stride \notin {1, 2} \/ kernel_size \notin {3, 5}
    THEN [err |-> "AssertionError", module |-> NoModule]
    ELSE [err |-> "",
          module |-> [cls |-> "_InvertedResidual", in_ch |-> in_ch, out_ch |-> out_ch,
                      kernel_size |-> kernel_size, stride |-> stride,
                      mid_ch |-> in_ch * expansion_factor,
                      apply_residual |-> skip /\ in_ch = out_ch /\ stride = 1]]

\* _stack_inverted_residual: [err, module], the module being the nn.Sequential
_stack_inverted_residual(in_ch, out_ch, kernel_size, skip, stride, exp_factor, repeats) ==
    IF repeats < 1 THEN [err |-> "AssertionError", module |-> NoModule]
    ELSE LET Stack(first, other) ==
                 IF first.err # "" THEN first
                 ELSE IF repeats > 1 /\ other.err # "" THEN other
                 ELSE [err |-> "",
                       module |-> Sequential(<<first.module>>
                                             \o [k \in 1..(repeats - 1) |-> other.module])]
         IN Stack(_InvertedResidual(in_ch, out_ch, kernel_size, stride, exp_factor, skip),
                  _InvertedResidual(out_ch, out_ch, kernel_size, 1, exp_factor, skip))

\* the loop of _stack_normal_conv from repetition i on: the list `stack`
RECURSIVE StackNormalLoop(_, _, _, _, _, _, _, _)
StackNormalLoop(i, in_ch, out_ch, kernel_size, skip, dconv, stride, repeats) ==
    IF i >= repeats THEN <<>>
    ELSE LET s == IF i = 0 THEN stride ELSE 1
             modules == IF dconv
                        THEN <<Conv2d(in_ch, in_ch, kernel_size, s, in_ch),
                               BatchNorm2d(in_ch), ReLU,
                               Conv2d(in_ch, out_ch, 1, 1, 1), BatchNorm2d(out_ch)>>
                        ELSE <<Conv2d(in_ch, out_ch, kernel_size, s, 1), ReLU,
                               BatchNorm2d(out_ch)>>
         IN (IF skip /\ in_ch = out_ch /\ s = 1
             THEN <<_ResidualBlock(Sequential(modules))>>
             ELSE modules)
            \o StackNormalLoop(i + 1, out_ch, out_ch, kernel_size, skip, dconv, stride,
                               repeats)

\* _stack_normal_conv: [err, modules]
_stack_normal_conv(in_ch, out_ch, kernel_size, skip, dconv, stride, repeats) ==
    IF repeats < 1 THEN [err |-> "AssertionError", modules |-> <<>>]
    ELSE [err |-> "",
          modules |-> StackNormalLoop(0, in_ch, out_ch, kernel_size, skip, dconv, stride,
                                      repeats)]

\* _get_depths(depths, alpha) for a whole alpha
_get_depths(depths, alpha) ==
    [i \in 1..Len(depths) |-> _round_to_multiple_of(depths[i] * alpha, 8)]

(***************************************************************************)
(* _stack_inverted_residual called on its own.                             *)
(***************************************************************************)
MaxRepeats == 3

Channels == {16, 24}

InitStack ==
    /\ torch_version = V140
    /\ args \in [in_ch : Channels, out_ch : Channels, kernel_size : {3, 4, 5},
                 skip : BOOLEAN, stride : {1, 2, 3}, exp_factor : {3, 6},
                 repeats : 0..MaxRepeats]
    /\ InitCall

\* _stack_inverted_residual(in_ch, out_ch, kernel_size, skip, stride, exp_factor, repeats, bn_momentum)
StackInvertedResidual ==
    /\ pc = "call"
    /\ pc' = "done"
    /\ result' = _stack_inverted_residual(args.in_ch, args.out_ch, args.kernel_size,
                                          args.skip, args.stride, args.exp_factor,
                                          args.repeats)
    /\ UNCHANGED <<torch_version, model, dummy_input, traced_model, error, trace,
                   jit_trace_calls, global_count, leaf_modules, nodes_op, name_to_node,
                   input_to_node, output_to_node, retval, bound_model, args>>

SpecStack == InitStack /\ [][StackInvertedResidual]_vars

(***************************************************************************)
(* C13: in a stack built by _stack_inverted_residual the first block has   *)
(* no skip, whatever in_ch, out_ch, stride and the skip flag are: its      *)
(* apply_residual is false, and the remaining repeats - 1 blocks go from   *)
(* out_ch to out_ch with stride 1 and are the only ones that may apply the *)
(* residual.                                                               *)
(***************************************************************************)
C13_FirstBlockHasNoSkip ==
    pc = "done" /\ result.err = "" =>
        LET blocks == result.module.modules
        IN /\ Len(blocks) = args.repeats
           /\ ~blocks[1].apply_residual
           /\ \A k \in 2..Len(blocks) :
                 /\ blocks[k].in_ch = args.out_ch
                 /\ blocks[k].out_ch = args.out_ch
                 /\ blocks[k].stride = 1

(***************************************************************************)
(* C14: after the grouping of _build_graph the module node groups          *)
(* partition the trace nodes of leaf-module scopes: every trace node whose *)
(* module name is a leaf module is in the node_cpps of exactly one module  *)
(* node group.                                                             *)
(***************************************************************************)
C14_ModuleGroupsPartitionLeafNodes ==
    Grouped =>
        \A n \in 1..Len(Graph) :
            _get_module_name(torch_version, Graph[n].scopeName) \in SeqToSet(leaf_modules)
            => Cardinality({i \in 1..Len(nodes_op) :
                               /\ nodes_op[i].type = "module"
                               /\ n \in SeqToSet(nodes_op[i].node_cpps)}) = 1

(***************************************************************************)
(* Numeric order of version strings major.minor.patch.                     *)
(***************************************************************************)
\* the number written by the digits of s
RECURSIVE StrToInt(_)
StrToInt(s) ==
    IF s = <<>> THEN 0
    ELSE 10 * StrToInt(SubSeq(s, 1, Len(s) - 1)) + (Ord[s[Len(s)]] - Ord["0"])

VersionNumbers(v) == [i \in 1..3 |-> StrToInt(Split(v, ".")[i])]

\* v is numerically at least w
VersionAtLeast(v, w) ==
    LET a == VersionNumbers(v)
        b == VersionNumbers(w)
    IN \/ a[1] > b[1]
       \/ a[1] = b[1] /\ a[2] > b[2]
       \/ a[1] = b[1] /\ a[2] = b[2] /\ a[3] >= b[3]

(***************************************************************************)
(* C16: the version checks follow numeric version order.  TorchGraph       *)
(* passes its version assertion exactly when torch.__version__ is          *)
(* numerically at least 1.3.1, and _get_module_name and                    *)
(* build_module_hierarchy take the 1.4.0 branch exactly when it is         *)
(* numerically at least 1.4.0, two-digit components such as 1.10.0         *)
(* included.                                                               *)
(***************************************************************************)
C16_VersionChecksFollowNumericOrder ==
    pc # "start" =>
        /\ (traced_model = None \/ traced_model.cls = "TopLevelTracedModule")
           => (error # "AssertionError" <=> VersionAtLeast(torch_version, V131))
        /\ _get_module_name(torch_version, ScopeOf(LeafName)) = LeafName
           <=> VersionAtLeast(torch_version, V140)
        /\ build_module_hierarchy(<<>>, torch_version, <<>>, EmptyDict).err = ""
           <=> VersionAtLeast(torch_version, V140)

(***************************************************************************)
(* TorchProtoGraph.parse.  The graph is a sequence of nodes; a node is     *)
(* identified by its position n and its output is the value %n.  input is  *)
(* the position of the node that produces the input of a prim::GetAttr, 0  *)
(* for the top-level self; classType tells whether the output is of        *)
(* ClassType.                                                              *)
(***************************************************************************)
PARAM_KIND == <<"p", "r", "i", "m", ":", ":", "P", "a", "r", "a", "m">>

ProtoNode(kind, name, input, classType, scopeName) ==
    [kind |-> kind, name |-> name, input |-> input, classType |-> classType,
     scopeName |-> scopeName]

\* s.strip() for blanks
RECURSIVE Strip(_)
Strip(s) ==
    IF s = <<>> THEN s
    ELSE IF Head(s) = " " THEN Strip(Tail(s))
    ELSE IF s[Len(s)] = " " THEN Strip(SubSeq(s, 1, Len(s) - 1))
    ELSE s

\* str(node): '%n : type = kind...'
NodeStr(g, n) ==
    <<"%">> \o IntToStr(n) \o <<" ", ":", " ">>
    \o (IF g[n].classType THEN <<"_", "_", "t", "o", "r", "c", "h", "_", "_", ".", "N", "e", "t">> ELSE <<"T", "e", "n", "s", "o", "r">>)
    \o <<" ", "=", " ">> \o g[n].kind

\* node_to_name(d)
node_to_name(d) == Strip(Split(d, ":")[1])

\* the scope of a GetAttr node whose parent is the whole scope so far
GetAttrScope_flat(parent_scope, attr_name) ==
    parent_scope \o <<".">> \o attr_name

\* '{}/{}.{}'.format(parent_scope, attr_scope, attr_name)
GetAttrScope(parent_scope, attr_name) ==
    LET parts == Split(parent_scope, "/")
        attr_scope == parts[Len(parts)]
    IN parent_scope \o <<"/">> \o attr_scope \o <<".">> \o attr_name

\* the loop over graph.nodes() from node n on: [attr_to_scope, nodes_op]
RECURSIVE ParseNodesLoop(_, _, _)
ParseNodesLoop(g, n, st) ==
    IF n > Len(g) THEN st
    ELSE IF g[n].kind = GETATTR_KIND
    THEN LET attr_name == g[n].name
             node_name == node_to_name(NodeStr(g, n))
             parent_kind == IF g[n].input = 0 THEN PARAM_KIND ELSE g[g[n].input].kind
             Emit(scope) ==
                 ParseNodesLoop(g, n + 1,
                    [attr_to_scope |-> Put(st.attr_to_scope, node_name, scope),
                     nodes_op |-> IF ~g[n].classType
                                  THEN Append(st.nodes_op, [node |-> n, scopeName |-> scope])
                                  ELSE st.nodes_op])
         IN Emit(IF parent_kind = GETATTR_KIND
                 THEN GetAttrScope(st.attr_to_scope[node_to_name(NodeStr(g, g[n].input))],
                                   attr_name)
                 ELSE ModulePrefix \o attr_name)
    ELSE ParseNodesLoop(g, n + 1,
            [attr_to_scope |-> st.attr_to_scope,
             nodes_op |-> Append(st.nodes_op, [node |-> n, scopeName |-> g[n].scopeName])])

\* alias_to_name of parse, from trace.named_modules(prefix='__module')
AliasToName(modules) ==
    [alias \in {IF name = <<>> THEN <<"_", "_", "m", "o", "d", "u", "l", "e">> ELSE ModulePrefix \o name : name \in DOMAIN modules} |->
        LET name == IF alias = <<"_", "_", "m", "o", "d", "u", "l", "e">> THEN <<>>
                    ELSE SubSeq(alias, Len(ModulePrefix) + 1, Len(alias))
            parts == Split(alias, ".")
        IN parse_traced_name(modules[name]) \o <<"[">> \o parts[Len(parts)] \o <<"]">>]

\* the loop over module_aliases from alias i on; st is [module_name, scopeName]
RECURSIVE AliasLoop(_, _, _, _, _)
AliasLoop(module_aliases, i, st, alias_to_name, base_name) ==
    IF i > Len(module_aliases) THEN st.scopeName
    ELSE IF i = 1
    THEN AliasLoop(module_aliases, i + 1,
                   [module_name |-> module_aliases[i], scopeName |-> base_name],
                   alias_to_name, base_name)
    ELSE LET module_name == st.module_name \o <<".">> \o module_aliases[i]
         IN AliasLoop(module_aliases, i + 1,
                      [module_name |-> module_name,
                       scopeName |-> st.scopeName \o <<"/">>
                                     \o (IF module_name \in DOMAIN alias_to_name
                                         THEN alias_to_name[module_name]
                                         ELSE module_aliases[i])],
                      alias_to_name, base_name)

\* parse up to the scope names of nodes_py.nodes_op: [attr_to_scope,
\* nodes_op], every op carrying the scope it was emitted with (scopeName) and
\* the one the closing loop gives it (finalScopeName)
TorchProtoGraph_parse(tr) ==
    LET Finish(st, alias_to_name, base_name) ==
            [attr_to_scope |-> st.attr_to_scope,
             nodes_op |->
                [k \in 1..Len(st.nodes_op) |->
                    LET segments == Split(st.nodes_op[k].scopeName, "/")
                    IN [node |-> st.nodes_op[k].node,
                        scopeName |-> st.nodes_op[k].scopeName,
                        finalScopeName |->
                            AliasLoop(Split(segments[Len(segments)], "."), 1,
                                      [module_name |-> <<>>,
                                       scopeName |-> st.nodes_op[k].scopeName],
                                      alias_to_name, base_name)]]]
    IN Finish(ParseNodesLoop(tr.graph, 1, [attr_to_scope |-> EmptyDict, nodes_op |-> <<>>]),
              AliasToName(tr.modules), parse_traced_name(tr.modules[<<>>]))

AttrNames == {<<"a">>, <<"b">>}

\* the nodes that may stand after the nodes of g
ProtoChoices(g) ==
    {ProtoNode(GETATTR_KIND, name, input, classType, <<>>) :
        name \in AttrNames,
        input \in {0} \cup {m \in 1..Len(g) : g[m].kind = GETATTR_KIND /\ g[m].classType},
        classType \in BOOLEAN}
    \cup {ProtoNode(KindMean, <<>>, 0, FALSE, scope) : scope \in {<<>>, ScopeOf(<<"a">>)}}

RECURSIVE ProtoGraphsOfLen(_)
ProtoGraphsOfLen(n) ==
    IF n = 0 THEN {<<>>}
    ELSE UNION {{Append(g, c) : c \in ProtoChoices(g)} : g \in ProtoGraphsOfLen(n - 1)}

InitProto ==
    /\ torch_version = V140
    /\ \E n \in 1..MaxNodes : \E g \in ProtoGraphsOfLen(n) :
          args = Object("TopLevelTracedModule", g, ModulesOf({<<"a">>, <<"a", ".", "b">>}))
    /\ InitCall

\* self.parse(self.trace.graph, self.trace, dummy_input)
Parse ==
    /\ pc = "call"
    /\ pc' = "done"
    /\ result' = TorchProtoGraph_parse(args)
    /\ UNCHANGED <<torch_version, model, dummy_input, traced_model, error, trace,
                   jit_trace_calls, global_count, leaf_modules, nodes_op, name_to_node,
                   input_to_node, output_to_node, retval, bound_model, args>>

SpecProto == InitProto /\ [][Parse]_vars

\* the attribute names read from the top-level self down to node n
RECURSIVE AttrPath(_, _)
AttrPath(g, n) ==
    IF g[n].input = 0 THEN <<g[n].name>>
    ELSE Append(AttrPath(g, g[n].input), g[n].name)

\* the key of node n in attr_to_scope
NodeName(n) == <<"%">> \o IntToStr(n)

(***************************************************************************)
(* C17: the scope parse assigns to a prim::GetAttr node encodes its whole  *)
(* attribute path: for the chain of GetAttr nodes reading p1, ..., pk from *)
(* the top-level self, attr_to_scope of the k-th node is                   *)
(* '__module.p1/__module.p1.p2/.../__module.p1.p2...pk'; and a GetAttr     *)
(* node is emitted as an op node, with that scope, only when its output is *)
(* not of ClassType.                                                       *)
(***************************************************************************)
C17_GetAttrScopeEncodesPath ==
    pc = "done" =>
        LET g == args.graph
            getattrs == {n \in 1..Len(g) : g[n].kind = GETATTR_KIND}
            emitted == {result.nodes_op[k].node : k \in 1..Len(result.nodes_op)}
        IN /\ DOMAIN result.attr_to_scope = {NodeName(n) : n \in getattrs}
           /\ \A n \in getattrs :
                 result.attr_to_scope[NodeName(n)] = ScopeOf(Join(AttrPath(g, n), "."))
           /\ emitted \cap getattrs = {n \in getattrs : ~g[n].classType}
           /\ \A k \in 1..Len(result.nodes_op) :
                 result.nodes_op[k].node \in getattrs
                 => result.nodes_op[k].scopeName
                      = ScopeOf(Join(AttrPath(g, result.nodes_op[k].node), "."))

\* a chain of three GetAttr nodes whose last one is emitted
C17_Witness ==
    /\ pc = "done"
    /\ \E k \in 1..Len(result.nodes_op) :
          LET n == result.nodes_op[k].node
          IN /\ args.graph[n].kind = GETATTR_KIND
             /\ Len(AttrPath(args.graph, n)) = 3

(***************************************************************************)
(* retiarii_perf/mnasnet.py: parse_mnasnet_block, mnasnet_any and          *)
(* MNASNet.__init__.  The filter multipliers 0.75, 1.0 and 1.25 are kept   *)
(* in quarters; the filters of _MOBILENET_V2_FILTERS are multiples of 4,   *)
(* so int(a * b) is exact.                                                 *)
(***************************************************************************)
Min(a, b) == IF a <= b THEN a ELSE b

\* s.rstrip()
RECURSIVE Rstrip(_)
Rstrip(s) ==
    IF s # <<>> /\ s[Len(s)] \in {" ", "\n"} THEN Rstrip(SubSeq(s, 1, Len(s) - 1)) ELSE s

\* int(tok): [ok, value]; ok is FALSE where int raises ValueError
ParseInt(tok) ==
    LET IsNumber(t) == t # <<>> /\ \A k \in 1..Len(t) : t[k] \in Digits
    IN IF IsNumber(tok) THEN [ok |-> TRUE, value |-> StrToInt(tok)]
       ELSE IF tok # <<>> /\ tok[1] = "-" /\ IsNumber(Tail(tok))
       THEN [ok |-> TRUE, value |-> 0 - StrToInt(Tail(tok))]
       ELSE IF tok # <<>> /\ tok[1] = "+" /\ IsNumber(Tail(tok))
       THEN [ok |-> TRUE, value |-> StrToInt(Tail(tok))]
       ELSE [ok |-> FALSE, value |-> 0]

ID_TO_OP == <<"conv", "mconv", "dconv">>
ID_TO_FILTERS == <<3, 4, 5>>
ID_TO_KERNEL == <<3, 5>>
ID_TO_SKIPS == <<FALSE, TRUE>>

\* ID_TO_LAYERS with -1 at every stage
ID_TO_LAYERS_minus(i) ==
    <<0, 1, -1>>

\* ID_TO_LAYERS during stage i (1..7)
ID_TO_LAYERS(i) ==
    <<0, 1>> \o (IF _MOBILENET_V2_NUM_LAYERS[i] > 1 THEN <<-1>> ELSE <<0>>)

\* ID_TO_X[int(tok)] for a dict with the keys 0..Len(dict)-1: [err, value]
Lookup(dict, tok) ==
    LET Get(n) ==
            IF ~n.ok THEN [err |-> "ValueError", value |-> dict[1]]
            ELSE IF n.value \notin 0..(Len(dict) - 1)
            THEN [err |-> "KeyError", value |-> dict[1]]
            ELSE [err |-> "", value |-> dict[n.value + 1]]
    IN Get(ParseInt(tok))

NoBlockDef == [convop |-> <<>>, filters |-> <<>>, kernel_size |-> <<>>, num_layers |-> <<>>, skips |-> <<>>]

\* the loop `for i in range(7)` from stage i (1..7) on: [err, block_def]
RECURSIVE ParseStagesLoop(_, _, _)
ParseStagesLoop(tokens, i, block_def) ==
    IF i > 7 THEN [err |-> "", block_def |-> block_def]
    ELSE LET Stage(convop, num_layers, filters, kernel_size, skips) ==
                 IF convop.err # "" THEN [err |-> convop.err, block_def |-> NoBlockDef]
                 ELSE IF num_layers.err # ""
                 THEN [err |-> num_layers.err, block_def |-> NoBlockDef]
                 ELSE IF filters.err # ""
                 THEN [err |-> filters.err, block_def |-> NoBlockDef]
                 ELSE IF kernel_size.err # ""
                 THEN [err |-> kernel_size.err, block_def |-> NoBlockDef]
                 ELSE IF skips.err # "" THEN [err |-> skips.err, block_def |-> NoBlockDef]
                 ELSE ParseStagesLoop(tokens, i + 1,
                         [convop |-> Append(block_def.convop, convop.value),
                          filters |-> Append(block_def.filters, filters.value),
                          kernel_size |-> Append(block_def.kernel_size, kernel_size.value),
                          num_layers |-> Append(block_def.num_layers, num_layers.value),
                          skips |-> Append(block_def.skips, skips.value)])
         IN Stage(Lookup(ID_TO_OP, tokens[(i - 1) * 5 + 1]),
                  Lookup(ID_TO_LAYERS(i), tokens[(i - 1) * 5 + 2]),
                  Lookup(ID_TO_FILTERS, tokens[(i - 1) * 5 + 3]),
                  Lookup(ID_TO_KERNEL, tokens[(i - 1) * 5 + 4]),
                  Lookup(ID_TO_SKIPS, tokens[(i - 1) * 5 + 5]))

\* parse_mnasnet_block(line): [err, block_def]
parse_mnasnet_block(line) ==
    LET Tokens(tokens) ==
            IF Len(tokens) # 7 * 5 THEN [err |-> "AssertionError", block_def |-> NoBlockDef]
            ELSE ParseStagesLoop(tokens, 1, NoBlockDef)
        Line(stripped) == Tokens(Split(SubSeq(stripped, 2, Len(stripped) - 1), " "))
    IN Line(Rstrip(line))

exp_ratios == <<3, 3, 3, 6, 6, 6, 6>>
strides == <<1, 2, 2, 2, 1, 2, 1>>

\* the loop over the zipped stages from stage i on: [err, layers]
RECURSIVE MNASNetStagesLoop(_, _, _, _, _, _)
MNASNetStagesLoop(i, depths, convops, kernel_sizes, num_layers, skips) ==
    IF i > 7 THEN [err |-> "", layers |-> <<>>]
    ELSE LET Prepend(stack, rest) == [err |-> rest.err, layers |-> stack \o rest.layers]
             Rest(r) ==
                 IF r.err # "" THEN [err |-> r.err, layers |-> <<>>]
                 ELSE Prepend(r.layers,
                              MNASNetStagesLoop(i + 1, depths, convops, kernel_sizes,
                                                num_layers, skips))
             Inverted(r) == [err |-> r.err, layers |-> <<r.module>>]
             Normal(r) == [err |-> r.err, layers |-> r.modules]
         IN Rest(IF convops[i] = "mconv"
                 THEN Inverted(_stack_inverted_residual(depths[i], depths[i + 1],
                                  kernel_sizes[i], skips[i], strides[i], exp_ratios[i],
                                  num_layers[i]))
                 ELSE Normal(_stack_normal_conv(depths[i], depths[i + 1], kernel_sizes[i],
                                skips[i], convops[i] = "dconv", strides[i],
                                num_layers[i])))

\* MNASNet.__init__ for a whole alpha: [err, layers]
MNASNet_init(alpha, depths, convops, kernel_sizes, num_layers, skips) ==
    IF ~(alpha > 0) THEN [err |-> "AssertionError", layers |-> <<>>]
    ELSE IF ~(/\ Len(depths) = Len(convops)
              /\ Len(convops) = Len(kernel_sizes)
              /\ Len(kernel_sizes) = Len(num_layers)
              /\ Len(num_layers) = Len(skips)
              /\ Len(skips) = 7)
    THEN [err |-> "AssertionError", layers |-> <<>>]
    ELSE LET Layers(d, r) ==
                 IF r.err # "" THEN r
                 ELSE [err |-> "",
                       layers |-> <<Conv2d(3, d[1], 3, 2, 1), BatchNorm2d(d[1]), ReLU>>
                                  \o r.layers
                                  \o <<Conv2d(d[8], 1280, 1, 1, 1), BatchNorm2d(1280), ReLU>>]
             Scaled(d) == Layers(d, MNASNetStagesLoop(1, d, convops, kernel_sizes,
                                                      num_layers, skips))
         IN Scaled(_get_depths(<<_FIRST_DEPTH>> \o depths, alpha))

\* mnasnet_any: [err, layers]
mnasnet_any(convops, filter_multipliers, kernel_size, num_layer_deltas, skips) ==
    MNASNet_init(1,
                 [i \in 1..Min(7, Len(filter_multipliers)) |->
                     (_MOBILENET_V2_FILTERS[i] * filter_multipliers[i]) \div 4],
                 convops, kernel_size,
                 [i \in 1..Min(7, Len(num_layer_deltas)) |->
                     _MOBILENET_V2_NUM_LAYERS[i] + num_layer_deltas[i]],
                 skips)

\* build_model_from_file: block_def = parse_mnasnet_block(model_str)
ParseMnasnetBlock ==
    /\ pc = "call"
    /\ LET Assign(r) ==
               IF r.err # ""
               THEN /\ pc' = "error"
                    /\ error' = r.err
                    /\ UNCHANGED result
               ELSE /\ pc' = "parsed"
                    /\ result' = [block_def |-> r.block_def, model |-> NoModule]
                    /\ UNCHANGED error
       IN Assign(parse_mnasnet_block(args))
    /\ UNCHANGED <<torch_version, model, dummy_input, traced_model, trace,
                   jit_trace_calls, global_count, leaf_modules, nodes_op, name_to_node,
                   input_to_node, output_to_node, retval, bound_model, args>>

\* build_model_from_file: return mnasnet_any(block_def[...])
MnasnetAny ==
    /\ pc = "parsed"
    /\ LET Assign(r) ==
               IF r.err # ""
               THEN /\ pc' = "error"
                    /\ error' = r.err
                    /\ UNCHANGED result
               ELSE /\ pc' = "done"
                    /\ result' = [result EXCEPT !.model = Sequential(r.layers)]
                    /\ UNCHANGED error
       IN Assign(mnasnet_any(result.block_def.convop, result.block_def.filters,
                             result.block_def.kernel_size, result.block_def.num_layers,
                             result.block_def.skips))
    /\ UNCHANGED <<torch_version, model, dummy_input, traced_model, trace,
                   jit_trace_calls, global_count, leaf_modules, nodes_op, name_to_node,
                   input_to_node, output_to_node, retval, bound_model, args>>

\* the tokens of one stage: convop, num_layers, filters, kernel_size, skips
TokenChoices == {<<"0">>, <<"1">>, <<"2">>}

StageTokens == {<<a, b, c, d, e>> : a \in TokenChoices, b \in TokenChoices, c \in TokenChoices, d \in TokenChoices, e \in TokenChoices}

BaseStages == {<<<<"0">>, <<"0">>, <<"0">>, <<"0">>, <<"0">>>>, <<<<"1">>, <<"1">>, <<"1">>, <<"1">>, <<"1">>>>, <<<<"2">>, <<"2">>, <<"2">>, <<"1">>, <<"1">>>>}

\* the 35 tokens of the line whose stages are `base`, but for stage i
TokensOf(base, i, stage) ==
    [k \in 1..35 |-> IF (k - 1) \div 5 + 1 = i THEN stage[((k - 1) % 5) + 1]
                     ELSE base[((k - 1) % 5) + 1]]

LineOf(tokens) == <<"[">> \o Join(tokens, " ") \o <<"]", "\n">>

\* lines of mnasnet.seq: a base architecture with one stage drawn freely,
\* and lines with a token missing or a token that is no index
Lines ==
    {LineOf(TokensOf(base, i, stage)) : base \in BaseStages, i \in 1..7, stage \in StageTokens}
    \cup {LineOf(SubSeq(TokensOf(base, 1, base), 1, 34)) : base \in BaseStages}
    \cup {LineOf([TokensOf(base, 1, base) EXCEPT ![k] = tok]) :
             base \in BaseStages, k \in {1, 2}, tok \in {<<"-", "1">>, <<"x">>, <<>>}}

InitMnasnet ==
    /\ torch_version = V140
    /\ args \in Lines
    /\ InitCall

NextMnasnet ==
    \/ ParseMnasnetBlock
    \/ MnasnetAny

SpecMnasnet == InitMnasnet /\ [][NextMnasnet]_vars

(***************************************************************************)
(* C15: every architecture string accepted by parse_mnasnet_block builds   *)
(* without an assertion failure: the block definition has 7 entries per    *)
(* field, kernel sizes in {3, 5} and _MOBILENET_V2_NUM_LAYERS[i] + delta   *)
(* >= 1 at every stage, and mnasnet_any / MNASNet trip none of their       *)
(* asserts on it.                                                          *)
(***************************************************************************)
C15_AcceptedLinesBuild ==
    result # <<>> =>
        /\ \A f \in {"convop", "filters", "kernel_size", "num_layers", "skips"} :
              Len(result.block_def[f]) = 7
        /\ \A i \in 1..7 :
              /\ result.block_def.kernel_size[i] \in {3, 5}
              /\ _MOBILENET_V2_NUM_LAYERS[i] + result.block_def.num_layers[i] >= 1
        /\ pc # "error"

\* a built model with a stack of inverted residuals one layer shorter than in
\* MobileNetV2, next to stages of normal convolutions
C15_Witness ==
    /\ pc = "done"
    /\ \E i \in 1..7 : /\ result.block_def.convop[i] = "mconv"
                       /\ result.block_def.num_layers[i] = -1
    /\ \E j \in 1..7 : result.block_def.convop[j] = "dconv"
    /\ \E k \in 1..Len(result.model.modules) : result.model.modules[k].cls = "Sequential"

====
